---- MODULE Spec2Model ----
(***************************************************************************)
(* Model of the content agent's video processor                            *)
(* (services/agents/content-agent/content_agent/video_processor.py):       *)
(* VideoProcessor.process_video, _analyze_video,                           *)
(* _find_interesting_segments and _extract_platform_clips.                 *)
(*                                                                         *)
(* Numbers.  The code computes with floats; the model computes with exact  *)
(* rationals written as integers over a common denominator.                *)
(*   - video.duration is counted in half seconds (duration = 5 is 2.5 s).  *)
(*   - a time of one run is a numerator over TimeDen(n) half seconds,      *)
(*     n the number of samples, so one second is UnitsPerSecond(n) units.  *)
(*   - a motion score is counted in units of 1e-6, the epsilon of the      *)
(*     normalisation, so that max + 1e-6 is max + 1.                       *)
(*   - a composition score is counted in halves (the code's 0.5 is 1).     *)
(*   - a combined score is a numerator over 3 * 2 * 255 * (max + 1); a     *)
(*     segment's score is the record [num, den]: the sum of its members'   *)
(*     combined numerators over their number, and scale the common         *)
(*     denominator of the run.                                             *)
(* The rounding of float arithmetic is modelled in one place, the peak     *)
(* threshold: where a score equals mean + std exactly, the comparison of   *)
(* the rounded floats can go either way (IsPeak).                          *)
(*                                                                         *)
(* The frame source and the clip sink are not part of the code: a frame    *)
(* is any of FrameKinds or fails to decode, and cutting, resizing or       *)
(* writing a clip either succeeds or raises.                               *)
(*                                                                         *)
(* The module also models the REST handlers propose_change (ai-manager),   *)
(* execute (drone agent), suggest and process_video (content agent) in     *)
(* SpecApi, the coordinator's handle_task coroutines in SpecCoordinator,   *)
(* the analysis of a 10 s video with a burst of motion in SpecSynthetic,   *)
(* and the missions of the drone content integration service in           *)
(* SpecMissions and SpecCreate.  Each specification leaves the variables   *)
(* of the other parts at rest.                                             *)
(***************************************************************************)
EXTENDS Integers, Sequences, FiniteSets, TLC

VARIABLES
    pc,                 \* position in process_video / _extract_platform_clips
    duration,           \* video.duration, in half seconds
    sample_times,       \* numerators of np.linspace(0, duration, n)
    sample_i,           \* turns of the sampling loop taken so far
    motion_scores,      \* list built by the sampling loop
    brightness_scores,  \* list built by the sampling loop
    composition_scores, \* list built by the sampling loop
    tden,               \* denominator of the times of this run
    segments,           \* analysis['interesting_segments']
    platform,           \* index in Platforms of the platform being extracted
    seg_i,              \* loop index i of _extract_platform_clips (1-based)
    platform_clips,     \* local list clips of _extract_platform_clips
    clips,              \* list clips of process_video
    sink_failures,      \* clips whose cutting or writing raised so far
    error,              \* exception that left the call, or "none"
    result,             \* list returned to the caller (pc = "done")
    request,            \* HTTP request a REST handler is answering
    response,           \* HTTP response the handler gave to it
    processed,          \* video paths handed to video_processor.process_video
    handle_task,        \* position of each task's handle_task coroutine
    exp_id,             \* local exp_id of each task's handle_task
    experiments,        \* rows of table experiments
    experiment_logs,    \* rows of table experiment_logs
    published,          \* events handed to the backend publisher
    clock,              \* int(time.time()) of the integration service
    mission_objects,    \* the Mission objects created so far, in order
    missions,           \* self.missions: mission id -> Mission object
    active_mission,     \* self.active_mission: a Mission object, or 0 (None)
    posted,             \* per Mission object: requests posted on its behalf
    execute_mission,    \* per Mission object: position of its execute_mission
    cancel_mission,     \* per Mission object: position of its cancel_mission
    returned            \* the call that returned last, with its return value

video_vars ==
    <<pc, duration, sample_times, sample_i, motion_scores, brightness_scores,
      composition_scores, tden, segments, platform, seg_i,
      platform_clips, clips, sink_failures, error, result>>

api_vars == <<request, response, processed>>

coordinator_vars ==
    <<handle_task, exp_id, experiments, experiment_logs, published>>

mission_vars ==
    <<clock, mission_objects, missions, active_mission, posted,
      execute_mission, cancel_mission, returned>>

vars == <<video_vars, api_vars, coordinator_vars, mission_vars>>

\* no REST request is in flight
ApiIdle ==
    /\ request = [route |-> "none"]
    /\ response = [status |-> 0]
    /\ processed = {}

\* the integration service holds no mission
MissionsIdle ==
    /\ clock = 1
    /\ mission_objects = <<>>
    /\ missions = <<>>
    /\ active_mission = 0
    /\ posted = <<>>
    /\ execute_mission = <<>>
    /\ cancel_mission = <<>>
    /\ returned = [call |-> "none", id |-> 0, mission |-> 0, result |-> FALSE]

\* the coordinator has been given no task
CoordinatorIdle ==
    /\ handle_task = <<>>
    /\ exp_id = <<>>
    /\ experiments = <<>>
    /\ experiment_logs = <<>>
    /\ published = <<>>

----------------------------------------------------------------------------
(* Bounds of the model *)

\* enumerated videos last from -MaxNegative to MaxDuration half seconds
MaxNegative == 3
MaxDuration == 19
\* frames of a long video repeat with this period
LongPeriod == 3
\* clips of one run whose cutting or writing may raise
MaxSinkFailures == 1

\* long videos: 31 s (30 samples by floor) and 70 s (30 samples by the cap)
LongDurations == {62, 140}

Durations == (-MaxNegative .. MaxDuration) \cup LongDurations

\* what a decoded frame yields: Laplacian variance (in 1e-6) and mean grey
FrameKinds ==
    { [motion |-> 0, brightness |-> 0],
      [motion |-> 2, brightness |-> 255],
      [motion |-> 3, brightness |-> 255] }

----------------------------------------------------------------------------
(* Program constants *)

min_clip_duration == 3
max_clip_duration == 60
SampleCap == 30
PeakGap == 3
TopSegments == 5

Platforms == <<"youtube", "instagram", "tiktok">>

----------------------------------------------------------------------------
(* Helpers *)

Min(a, b) == IF a <= b THEN a ELSE b
Max(a, b) == IF a >= b THEN a ELSE b

RECURSIVE SeqSum(_)
SeqSum(s) == IF s = <<>> THEN 0 ELSE Head(s) + SeqSum(Tail(s))

RECURSIVE SeqMax(_)
SeqMax(s) == IF Len(s) = 1 THEN s[1] ELSE Max(Head(s), SeqMax(Tail(s)))

Abs(x) == IF x < 0 THEN -x ELSE x

RECURSIVE Gcd(_, _)
Gcd(a, b) == IF b = 0 THEN a ELSE Gcd(b, a % b)

RECURSIVE SeqGcd(_)
SeqGcd(s) == IF s = <<>> THEN 0 ELSE Gcd(Abs(Head(s)), SeqGcd(Tail(s)))

\* Python's int() of video.duration: truncation towards zero
IntSeconds(d) == IF d >= 0 THEN d \div 2 ELSE -((-d) \div 2)

\* mutant: the number of seconds is rounded up
NumSamples_RoundedUp(d) == Min(SampleCap, IntSeconds(d + 1))

\* number of samples asked of np.linspace
NumSamples(d) == Min(SampleCap, IntSeconds(d))

\* denominator of np.linspace's step
TimeDen(n) == IF n > 1 THEN n - 1 ELSE 1

\* mutant: the samples start one step late and run past the end
Linspace_OneStepLate(d, n) == [j \in 1 .. n |-> j * d]

\* np.linspace(0, d, n) for n >= 0: 0, d/(n-1), ..., d, as numerators
Linspace(d, n) == [j \in 1 .. n |-> (j - 1) * d]

\* time units in one second
UnitsPerSecond(den) == 2 * den

----------------------------------------------------------------------------
(* _find_interesting_segments *)

\* lines 184-189: numerators of (motion_norm + brightness_norm + comp_norm) / 3
\* over the common denominator ScoreScale(motion)
CombinedScores(motion, brightness, composition) ==
    LET mx == SeqMax(motion)
    IN  [j \in 1 .. Len(motion) |->
            2 * 255 * motion[j] + 2 * (mx + 1) * brightness[j]
                + 255 * (mx + 1) * composition[j]]

ScoreScale(motion) == 3 * 2 * 255 * (SeqMax(motion) + 1)

\* mutant: the threshold is mean + 2 * std
IsPeak_TwoDeviations(combined, j, rounded_down) ==
    LET n == Len(combined)
        s == SeqSum(combined)
        d == [k \in 1 .. n |-> n * combined[k] - s]
        g == SeqGcd(d)
        r == [k \in 1 .. n |-> IF g = 0 THEN 0 ELSE d[k] \div g]
        v == SeqSum([k \in 1 .. n |-> r[k] * r[k]])
    IN  r[j] > 0 /\ n * r[j] * r[j] > 4 * v

\* mutant: a sample at the threshold counts as a peak
IsPeak_AtThreshold(combined, j, rounded_down) ==
    LET n == Len(combined)
        s == SeqSum(combined)
        d == [k \in 1 .. n |-> n * combined[k] - s]
        g == SeqGcd(d)
        r == [k \in 1 .. n |-> IF g = 0 THEN 0 ELSE d[k] \div g]
        v == SeqSum([k \in 1 .. n |-> r[k] * r[k]])
    IN  r[j] >= 0 /\ n * r[j] * r[j] >= v

\* combined[j] > mean + std (np.std is the population deviation).  With
\* d[j] = n * combined[j] - sum, the test is d[j] > 0 and n * d[j]^2 > sum of
\* the d[i]^2; the d are divided by their gcd first, which changes nothing.
\* The code compares 64-bit floats: a score above the mean that equals
\* mean + std exactly (n * d[j]^2 = sum of the d[i]^2) exceeds the computed
\* threshold when the rounding of np.mean and np.std leaves the threshold
\* below it (rounded_down), and does not otherwise.
IsPeak(combined, j, rounded_down) ==
    LET n == Len(combined)
        s == SeqSum(combined)
        d == [k \in 1 .. n |-> n * combined[k] - s]
        g == SeqGcd(d)
        r == [k \in 1 .. n |-> IF g = 0 THEN 0 ELSE d[k] \div g]
        v == SeqSum([k \in 1 .. n |-> r[k] * r[k]])
    IN  /\ r[j] > 0
        /\ \/ n * r[j] * r[j] > v
           \/ rounded_down /\ n * r[j] * r[j] = v

\* lines 192-193: np.where(combined_scores > threshold)[0], in index order
Peaks(combined, rounded_down) ==
    SelectSeq([j \in 1 .. Len(combined) |-> j],
              LAMBDA j : IsPeak(combined, j, rounded_down))

\* mutant: the score is the mean over every sample from the first peak of the
\* group to its last
MakeSegment_AllSamples(current_segment, times, combined, scale) ==
    LET first == current_segment[1]
        last == current_segment[Len(current_segment)]
    IN  [start_time |-> times[first],
         end_time |-> times[last],
         score |-> [num |-> SeqSum(SubSeq(combined, first, last)),
                    den |-> last - first + 1,
                    scale |-> scale],
         duration |-> times[last] - times[first]]

\* lines 204-213 and 218-227: the segment of one group of peaks
MakeSegment(current_segment, times, combined, scale) ==
    LET start_time == times[current_segment[1]]
        end_time == times[current_segment[Len(current_segment)]]
    IN  [start_time |-> start_time,
         end_time |-> end_time,
         score |-> [num |-> SeqSum([k \in 1 .. Len(current_segment) |->
                                        combined[current_segment[k]]]),
                    den |-> Len(current_segment),
                    scale |-> scale],
         duration |-> end_time - start_time]

\* mutant: only peaks at adjacent samples are grouped
Nearby_Adjacent(p, q) == q - p <= 1

\* line 199: the next peak joins the current group
Nearby(p, q) == q - p <= PeakGap

\* line 203: a group closed by a later, distant peak is kept
KeepGroup(current_segment) == Len(current_segment) >= 2

\* mutant: the last group is kept whatever its size
KeepLastGroup_Single(current_segment) == Len(current_segment) >= 1

\* line 217: the last group is kept
KeepLastGroup(current_segment) == Len(current_segment) >= 2

\* lines 198-227: the loop over peaks[1:], then the last group
RECURSIVE GroupPeaks(_, _, _, _, _, _, _)
GroupPeaks(peaks, i, current_segment, segs, times, combined, scale) ==
    IF i > Len(peaks)
    THEN IF KeepLastGroup(current_segment)
         THEN Append(segs, MakeSegment(current_segment, times, combined, scale))
         ELSE segs
    ELSE IF Nearby(peaks[i - 1], peaks[i])
         THEN GroupPeaks(peaks, i + 1, Append(current_segment, peaks[i]),
                         segs, times, combined, scale)
         ELSE GroupPeaks(peaks, i + 1, <<peaks[i]>>,
                         IF KeepGroup(current_segment)
                         THEN Append(segs, MakeSegment(current_segment, times,
                                                       combined, scale))
                         ELSE segs,
                         times, combined, scale)

\* a.score >= b.score, both scores of one run (same scale)
ScoreGE(a, b) == a.score.num * b.score.den >= b.score.num * a.score.den

\* place x behind every element whose score is >= its own
RECURSIVE InsertByScore(_, _)
InsertByScore(sorted, x) ==
    IF sorted = <<>> THEN <<x>>
    ELSE IF ScoreGE(Head(sorted), x)
         THEN <<Head(sorted)>> \o InsertByScore(Tail(sorted), x)
         ELSE <<x>> \o sorted

RECURSIVE SortFrom(_, _)
SortFrom(sorted, rest) ==
    IF rest = <<>> THEN sorted
    ELSE SortFrom(InsertByScore(sorted, Head(rest)), Tail(rest))

\* mutant: the segments stay in time order
SortSegments_TimeOrder(segs) == segs

\* line 230: segments.sort(key=score, reverse=True), a stable sort
SortSegments(segs) == SortFrom(<<>>, segs)

\* lines 179-233, for a non-empty list of samples
FindInterestingSegments(times, motion, brightness, composition, rounded_down) ==
    LET combined == CombinedScores(motion, brightness, composition)
        peaks == Peaks(combined, rounded_down)
        scale == ScoreScale(motion)
        grouped == IF Len(peaks) > 0
                   THEN GroupPeaks(peaks, 2, <<peaks[1]>>, <<>>, times,
                                   combined, scale)
                   ELSE <<>>
    IN  SortSegments(grouped)

----------------------------------------------------------------------------
(* _extract_platform_clips *)

\* lines 248-249
ClampDuration(d, den) ==
    Min(Max(d, min_clip_duration * UnitsPerSecond(den)),
        max_clip_duration * UnitsPerSecond(den))

\* line 252
ClipStart(segment) == Max(0, segment.start_time)

\* line 253; video.duration is video_duration * den units
ClipEnd(segment, video_duration, den) ==
    Min(video_duration * den,
        ClipStart(segment) + ClampDuration(segment.duration, den))

\* line 282: the duration the clip reports
ClipDuration(segment, video_duration, den) ==
    ClampDuration(segment.duration, den)

\* score > tenths / 10
ScoreAbove(score, tenths) == 10 * score.num > tenths * score.den * score.scale

\* lines 405-420
GenerateTags(pf, segment) ==
    <<"drone", "farm", "agriculture", "aerial">>
    \o (IF pf = "youtube" THEN <<"youtube", "longform", "educational">>
        ELSE IF pf = "instagram" THEN <<"instagram", "visual", "story">>
        ELSE IF pf = "tiktok" THEN <<"tiktok", "shortform", "viral">>
        ELSE <<>>)
    \o (IF ScoreAbove(segment.score, 7) THEN <<"high_quality">>
        ELSE IF ScoreAbove(segment.score, 5) THEN <<"good_quality">>
        ELSE <<>>)

\* lines 279-289
MakeClip(segment, pf, i, video_duration, den) ==
    [start_time |-> ClipStart(segment),
     end_time |-> ClipEnd(segment, video_duration, den),
     duration |-> ClipDuration(segment, video_duration, den),
     clip_num |-> i,
     tags |-> GenerateTags(pf, segment),
     quality_score |-> segment.score,
     platform |-> pf]

\* mutant: every segment is cut, not only the first five
TopOf_NoLimit(segs) == segs

\* line 245: segments[:5]
TopOf(segs) == SubSeq(segs, 1, Min(TopSegments, Len(segs)))

----------------------------------------------------------------------------
(* process_video: the state machine *)

Init ==
    /\ pc = "load"
    /\ duration \in Durations
    /\ sample_times = <<>>
    /\ sample_i = 0
    /\ motion_scores = <<>>
    /\ brightness_scores = <<>>
    /\ composition_scores = <<>>
    /\ tden = 1
    /\ segments = <<>>
    /\ platform = 1
    /\ seg_i = 1
    /\ platform_clips = <<>>
    /\ clips = <<>>
    /\ sink_failures = 0
    /\ error = "none"
    /\ result = <<>>
    /\ ApiIdle
    /\ CoordinatorIdle
    /\ MissionsIdle

\* the exception leaves process_video through its except clause (115-117)
Raise(e) ==
    /\ pc' = "failed"
    /\ error' = e

\* lines 81-87 and 121-129: the video is loaded and the sample times are laid
\* out; np.linspace raises ValueError for a negative number of samples
StartAnalysis ==
    /\ pc = "load"
    /\ LET n == NumSamples(duration)
       IN  \/ /\ n < 0
              /\ Raise("ValueError")
              /\ UNCHANGED <<sample_times, tden>>
           \/ /\ n >= 0
              /\ pc' = "sampling"
              /\ sample_times' = Linspace(duration, n)
              /\ tden' = TimeDen(n)
              /\ UNCHANGED error
    /\ UNCHANGED <<duration, sample_i, motion_scores, brightness_scores,
                   composition_scores, segments, platform, seg_i,
                   platform_clips, clips, sink_failures, result>>
    /\ UNCHANGED <<api_vars, coordinator_vars, mission_vars>>

\* the frames the source may hold at sample t (1-based): any kind, but a
\* video of SampleCap samples repeats its frames with period LongPeriod
FramesAt(t) ==
    IF Len(sample_times) >= SampleCap /\ t > LongPeriod
    THEN { [motion |-> motion_scores[t - LongPeriod],
            brightness |-> brightness_scores[t - LongPeriod]] }
    ELSE FrameKinds

\* lines 165-177: always the base score 0.5, in halves
CalculateCompositionScore(frame) == 1

\* mutant: a sample whose frame cannot be decoded is skipped
SampleFrame_SkipUndecodable ==
    /\ pc = "sampling"
    /\ sample_i < Len(sample_times)
    /\ \/ UNCHANGED <<motion_scores, brightness_scores, composition_scores>>
       \/ \E frame \in FramesAt(Len(motion_scores) + 1) :
                /\ motion_scores' = Append(motion_scores, frame.motion)
                /\ brightness_scores' = Append(brightness_scores, frame.brightness)
                /\ composition_scores' =
                       Append(composition_scores, CalculateCompositionScore(frame))
    /\ sample_i' = sample_i + 1
    /\ UNCHANGED <<pc, error, duration, sample_times, tden, segments, platform,
                   seg_i, platform_clips, clips, sink_failures, result>>
    /\ UNCHANGED <<api_vars, coordinator_vars, mission_vars>>

\* lines 131-145: one turn of the sampling loop.  get_frame either raises,
\* which ends the analysis, or yields the frame whose scores are appended.
SampleFrame ==
    /\ pc = "sampling"
    /\ sample_i < Len(sample_times)
    /\ \/ /\ Raise("DecodeError")
          /\ UNCHANGED <<sample_i, motion_scores, brightness_scores,
                         composition_scores>>
       \/ /\ \E frame \in FramesAt(sample_i + 1) :
                /\ motion_scores' = Append(motion_scores, frame.motion)
                /\ brightness_scores' = Append(brightness_scores, frame.brightness)
                /\ composition_scores' =
                       Append(composition_scores, CalculateCompositionScore(frame))
          /\ sample_i' = sample_i + 1
          /\ UNCHANGED <<pc, error>>
    /\ UNCHANGED <<duration, sample_times, tden, segments, platform, seg_i,
                   platform_clips, clips, sink_failures, result>>
    /\ UNCHANGED <<api_vars, coordinator_vars, mission_vars>>

\* mutant: an empty list of samples yields an empty list of segments
FindSegments_EmptyIsFine ==
    /\ pc = "sampling"
    /\ sample_i = Len(sample_times)
    /\ \E rounded_down \in BOOLEAN :
          segments' = IF Len(motion_scores) = 0 THEN <<>>
                      ELSE FindInterestingSegments(sample_times, motion_scores,
                               brightness_scores, composition_scores, rounded_down)
    /\ pc' = "extract"
    /\ UNCHANGED <<error, duration, sample_times, sample_i, motion_scores,
                   brightness_scores, composition_scores, tden, platform, seg_i,
                   platform_clips, clips, sink_failures, result>>
    /\ UNCHANGED <<api_vars, coordinator_vars, mission_vars>>

\* lines 147-158: _find_interesting_segments on the sampled scores; np.max of
\* an empty list raises ValueError (line 184)
FindSegments ==
    /\ pc = "sampling"
    /\ sample_i = Len(sample_times)
    /\ \/ /\ Len(motion_scores) = 0
          /\ Raise("ValueError")
          /\ UNCHANGED segments
       \/ /\ Len(motion_scores) > 0
          /\ \E rounded_down \in BOOLEAN :
                segments' = FindInterestingSegments(sample_times, motion_scores,
                                brightness_scores, composition_scores, rounded_down)
          /\ pc' = "extract"
          /\ UNCHANGED error
    /\ UNCHANGED <<duration, sample_times, sample_i, motion_scores,
                   brightness_scores, composition_scores, tden, platform, seg_i,
                   platform_clips, clips, sink_failures, result>>
    /\ UNCHANGED <<api_vars, coordinator_vars, mission_vars>>

\* lines 245-292: one turn of the loop over segments[:5] that ends in append
ExtractClip ==
    /\ pc = "extract"
    /\ seg_i <= Len(TopOf(segments))
    /\ platform_clips' = Append(platform_clips,
           MakeClip(segments[seg_i], Platforms[platform], seg_i, duration, tden))
    /\ seg_i' = seg_i + 1
    /\ UNCHANGED <<pc, duration, sample_times, sample_i, motion_scores,
                   brightness_scores, composition_scores, tden, segments, platform, clips,
                   sink_failures, error, result>>
    /\ UNCHANGED <<api_vars, coordinator_vars, mission_vars>>

\* lines 256-276 and 294-296: cutting, resizing or writing the clip raises;
\* the except clause logs and continues with the next segment
SkipClip ==
    /\ pc = "extract"
    /\ seg_i <= Len(TopOf(segments))
    /\ sink_failures < MaxSinkFailures
    /\ sink_failures' = sink_failures + 1
    /\ seg_i' = seg_i + 1
    /\ UNCHANGED <<pc, duration, sample_times, sample_i, motion_scores,
                   brightness_scores, composition_scores, tden, segments, platform, platform_clips,
                   clips, error, result>>
    /\ UNCHANGED <<api_vars, coordinator_vars, mission_vars>>

\* lines 298-299 and 93-108: the platform's clips are returned to
\* process_video, which extends its list and goes on to the next platform
EndPlatform ==
    /\ pc = "extract"
    /\ seg_i > Len(TopOf(segments))
    /\ clips' = clips \o platform_clips
    /\ platform_clips' = <<>>
    /\ seg_i' = 1
    /\ IF platform < Len(Platforms)
       THEN platform' = platform + 1 /\ UNCHANGED pc
       ELSE pc' = "close" /\ UNCHANGED platform
    /\ UNCHANGED <<duration, sample_times, sample_i, motion_scores,
                   brightness_scores, composition_scores, tden, segments, sink_failures, error,
                   result>>
    /\ UNCHANGED <<api_vars, coordinator_vars, mission_vars>>

\* lines 110-113
ReturnClips ==
    /\ pc = "close"
    /\ pc' = "done"
    /\ result' = clips
    /\ UNCHANGED <<duration, sample_times, sample_i, motion_scores,
                   brightness_scores, composition_scores, tden, segments, platform, seg_i,
                   platform_clips, clips, sink_failures, error>>
    /\ UNCHANGED <<api_vars, coordinator_vars, mission_vars>>

Next ==
    \/ StartAnalysis
    \/ SampleFrame
    \/ FindSegments
    \/ ExtractClip
    \/ SkipClip
    \/ EndPlatform
    \/ ReturnClips

Spec == Init /\ [][Next]_vars

----------------------------------------------------------------------------
(* _extract_platform_clips called on its own, with an analysis the caller *)
(* built by hand                                                           *)

\* most segments of a hand-built list
MaxHandBuilt == 6

\* start times and durations of hand-built segments, in half seconds; some
\* are inverted, empty or start before 0
HandBuiltStarts == {-4, 0, 16}
HandBuiltLengths == {-6, 0, 2, 10, 130}

\* videos of 2 s, 2.5 s, 10 s and 100 s
DirectDurations == {4, 5, 20, 200}

\* the k-th segment of a hand-built list of n, ranked by a score of
\* (n - k + 1) / 10
HandBuiltSegment(s, l, k, n) ==
    [start_time |-> s,
     end_time |-> s + l,
     score |-> [num |-> n - k + 1, den |-> 1, scale |-> 10],
     duration |-> l]

\* a first segment (s1, l1) followed by n - 1 segments (s2, l2)
HandBuiltList(s1, l1, s2, l2, n) ==
    [k \in 1 .. n |-> IF k = 1 THEN HandBuiltSegment(s1, l1, k, n)
                      ELSE HandBuiltSegment(s2, l2, k, n)]

InitDirect ==
    /\ pc = "extract"
    /\ duration \in DirectDurations
    /\ sample_times = <<>>
    /\ sample_i = 0
    /\ motion_scores = <<>>
    /\ brightness_scores = <<>>
    /\ composition_scores = <<>>
    /\ tden = 1
    /\ \E s1 \in HandBuiltStarts, l1 \in HandBuiltLengths,
          s2 \in HandBuiltStarts, l2 \in HandBuiltLengths,
          n \in 0 .. MaxHandBuilt :
            segments = HandBuiltList(s1, l1, s2, l2, n)
    /\ platform \in 1 .. Len(Platforms)
    /\ seg_i = 1
    /\ platform_clips = <<>>
    /\ clips = <<>>
    /\ sink_failures = 0
    /\ error = "none"
    /\ result = <<>>
    /\ ApiIdle
    /\ CoordinatorIdle
    /\ MissionsIdle

\* lines 298-299: the platform's clips are returned to the caller
ReturnPlatformClips ==
    /\ pc = "extract"
    /\ seg_i > Len(TopOf(segments))
    /\ pc' = "returned"
    /\ result' = platform_clips
    /\ UNCHANGED <<duration, sample_times, sample_i, motion_scores,
                   brightness_scores, composition_scores, tden, segments,
                   platform, seg_i, platform_clips, clips, sink_failures, error>>
    /\ UNCHANGED <<api_vars, coordinator_vars, mission_vars>>

NextDirect ==
    \/ ExtractClip
    \/ SkipClip
    \/ ReturnPlatformClips

SpecDirect == InitDirect /\ [][NextDirect]_vars

----------------------------------------------------------------------------
(* Properties of the analysis *)

\* _analyze_video has returned its analysis to process_video
Analysed == pc \in {"extract", "close", "done"}

\* _analyze_video has just returned: no clip has been attempted yet
JustAnalysed ==
    /\ pc = "extract"
    /\ platform = 1
    /\ seg_i = 1

\* C1: for every video of at least 1 s, the segments the analysis returns are
\* in non-increasing order of score: each segment's score is at least the
\* score of the segment after it.
C1_SortedByScore ==
    (JustAnalysed /\ duration >= 2) =>
        \A k \in 1 .. Len(segments) - 1 :
            segments[k].score.num * segments[k + 1].score.den
                >= segments[k + 1].score.num * segments[k].score.den

\* two segments of different scores, the later one in time ranked first
C1_Witness ==
    /\ JustAnalysed
    /\ Len(segments) >= 2
    /\ segments[1].score.num * segments[2].score.den
           > segments[2].score.num * segments[1].score.den
    /\ segments[1].start_time > segments[2].start_time

\* C2: every segment the analysis returns starts at 0 or later, ends at the
\* video's duration or earlier, and ends strictly after it starts.
C2_SegmentBounds ==
    JustAnalysed =>
        \A k \in 1 .. Len(segments) :
            /\ segments[k].start_time >= 0
            /\ segments[k].end_time <= duration * tden
            /\ segments[k].end_time > segments[k].start_time

\* a video longer than the sample cap with a segment that ends at its end
C2_Witness ==
    /\ JustAnalysed
    /\ IntSeconds(duration) > SampleCap
    /\ \E k \in 1 .. Len(segments) :
          /\ segments[k].end_time = duration * tden
          /\ segments[k].start_time > 0

\* the samples whose combined score exceeds mean + std: with
\* d[j] = n * combined[j] - sum, reduced by the gcd of the d, those with
\* d[j] > 0 and n * d[j]^2 > sum of the d[i]^2, and those with
\* n * d[j]^2 = sum of the d[i]^2 when the threshold was rounded down
PeakSet(rounded_down) ==
    LET combined == CombinedScores(motion_scores, brightness_scores,
                                   composition_scores)
        n == Len(combined)
        s == SeqSum(combined)
        d == [k \in 1 .. n |-> n * combined[k] - s]
        g == SeqGcd(d)
        r == [k \in 1 .. n |-> IF g = 0 THEN 0 ELSE d[k] \div g]
        v == SeqSum([k \in 1 .. n |-> r[k] * r[k]])
    IN  {j \in 1 .. n : /\ r[j] > 0
                         /\ \/ n * r[j] * r[j] > v
                            \/ rounded_down /\ n * r[j] * r[j] = v}

\* a peak with no other peak within PeakGap sample indices
Isolated(p, ps) == \A q \in ps \ {p} : Abs(p - q) > PeakGap

\* the peaks whose sample time lies in the segment
PeaksIn(segment, ps) ==
    {p \in ps : /\ segment.start_time <= sample_times[p]
                /\ sample_times[p] <= segment.end_time}

\* C3: every segment the analysis returns spans at least 2 peak samples, and
\* a peak with no other peak within 3 sample indices lies in no segment, also
\* when it is the last peak.
C3_GroupsOfTwo ==
    JustAnalysed =>
        \E rounded_down \in BOOLEAN :
        LET ps == PeakSet(rounded_down)
        IN  /\ \A k \in 1 .. Len(segments) :
                  /\ Cardinality(PeaksIn(segments[k], ps)) >= 2
                  /\ segments[k].score.den >= 2
            /\ \A p \in ps :
                  Isolated(p, ps) =>
                      \A k \in 1 .. Len(segments) : p \notin PeaksIn(segments[k], ps)

\* a segment was returned and the last peak of the run is an isolated one
C3_Witness ==
    /\ JustAnalysed
    /\ Len(segments) >= 1
    /\ \E p \in PeakSet(FALSE) :
          /\ Isolated(p, PeakSet(FALSE))
          /\ \A q \in PeakSet(FALSE) : q <= p
    /\ PeakSet(TRUE) = PeakSet(FALSE)

----------------------------------------------------------------------------
(* Properties of the clip extraction *)

Clamped(d, den) ==
    Min(Max(d, 3 * UnitsPerSecond(den)), 60 * UnitsPerSecond(den))

\* C5: every clip keeps its segment's start_time, ends at
\* min(video.duration, start_time + clamp(segment.duration, 3, 60)), and
\* reports duration = end_time - start_time, also when end_time was held to
\* the video's end.
C5_ClipTiming ==
    \A c \in 1 .. Len(platform_clips) :
        LET clip == platform_clips[c]
            segment == segments[clip.clip_num]
        IN  /\ clip.start_time = segment.start_time
            /\ clip.end_time =
                   Min(duration * tden,
                       segment.start_time + Clamped(segment.duration, tden))
            /\ clip.duration = clip.end_time - clip.start_time

\* C9: no clip is produced from a segment with end_time <= start_time or a
\* negative time: such a segment is rejected with InvalidSegmentError.
C9_RejectsMalformedSegments ==
    \A c \in 1 .. Len(platform_clips) :
        LET segment == segments[platform_clips[c].clip_num]
        IN  /\ segment.end_time > segment.start_time
            /\ segment.start_time >= 0

----------------------------------------------------------------------------
(* Properties of the error paths of the analysis *)

\* C6: a video shorter than 1 s (no samples) is analysed without error and
\* its list of segments is empty.
C6_ShortVideoEmpty ==
    (duration > 0 /\ duration < 2 /\ pc \notin {"load", "sampling"}) =>
        /\ error = "none"
        /\ Analysed
        /\ segments = <<>>

C8_DecodeErrorAborts ==
    /\ error = "DecodeError" =>
          /\ pc = "failed"
          /\ sample_i < Len(sample_times)
          /\ Len(motion_scores) = sample_i
          /\ Len(brightness_scores) = sample_i
          /\ Len(composition_scores) = sample_i
          /\ segments = <<>>
          /\ platform_clips = <<>>
          /\ clips = <<>>
          /\ result = <<>>
    /\ Analysed =>
          /\ error = "none"
          /\ Len(motion_scores) = Len(sample_times)
          /\ Len(brightness_scores) = Len(sample_times)
          /\ Len(composition_scores) = Len(sample_times)

\* the decoding failed after some samples had been scored
C8_Witness ==
    /\ error = "DecodeError"
    /\ sample_i >= 2
    /\ Len(sample_times) > sample_i + 1

----------------------------------------------------------------------------
(* Properties of the peak threshold *)

\* the frames sampled by the run all have the same scores
UniformFrames ==
    \A j \in 1 .. Len(motion_scores) :
        /\ motion_scores[j] = motion_scores[1]
        /\ brightness_scores[j] = brightness_scores[1]
        /\ composition_scores[j] = composition_scores[1]

----------------------------------------------------------------------------
(* REST handlers of the services.  A handler keeps no state between two    *)
(* requests: the state is the request in flight and the response given to  *)
(* it.  The bodies are the ones FastAPI has validated against the          *)
(* handler's request model.  A string that the code searches is a sequence *)
(* of one-character strings.                                               *)

\* the video processor is not running
VideoIdle ==
    /\ pc = "idle"
    /\ duration = 0
    /\ sample_times = <<>>
    /\ sample_i = 0
    /\ motion_scores = <<>>
    /\ brightness_scores = <<>>
    /\ composition_scores = <<>>
    /\ tden = 1
    /\ segments = <<>>
    /\ platform = 1
    /\ seg_i = 1
    /\ platform_clips = <<>>
    /\ clips = <<>>
    /\ sink_failures = 0
    /\ error = "none"
    /\ result = <<>>

\* most changes of one proposal
MaxChanges == 2

\* str.lower() on one character, for the capitals that occur in Diffs
LowerChar(c) ==
    CASE c = "S" -> "s"
      [] c = "P" -> "p"
      [] c = "R" -> "r"
      [] c = "A" -> "a"
      [] c = "Y" -> "y"
      [] c = "H" -> "h"
      [] OTHER -> c

\* mutant: the search is case-sensitive
Lower_AsWritten(s) == s

\* str.lower()
Lower(s) == [k \in 1 .. Len(s) |-> LowerChar(s[k])]

\* Python's `sub in s` for strings
Contains(s, sub) ==
    \E k \in 0 .. Len(s) - Len(sub) : SubSeq(s, k + 1, k + Len(sub)) = sub

Word_spray == <<"s", "p", "r", "a", "y">>
Word_harvest == <<"h", "a", "r", "v", "e", "s", "t">>

\* diffs that name spraying or harvesting: "spray", "SPRAY", "+harvest()",
\* "Harvest"
IrreversibleDiffs ==
    { <<"s", "p", "r", "a", "y">>,
      <<"S", "P", "R", "A", "Y">>,
      <<"+", "h", "a", "r", "v", "e", "s", "t", "(", ")">>,
      <<"H", "a", "r", "v", "e", "s", "t">> }

\* diffs that do not: "", "spra y", "harves", "+seed"
ReversibleDiffs ==
    { <<>>,
      <<"s", "p", "r", "a", " ", "y">>,
      <<"h", "a", "r", "v", "e", "s">>,
      <<"+", "s", "e", "e", "d">> }

Diffs == IrreversibleDiffs \cup ReversibleDiffs

\* the lists of at most MaxChanges changes
ChangeLists ==
    UNION { [1 .. n -> [diff : Diffs]] : n \in 0 .. MaxChanges }

\* the JSON field approval: true, false, or left out of the body
ApprovalFields == {"true", "false", "omitted"}

\* models.py line 43: approval: bool = False
Approval(field) == field = "true"

\* routes.py lines 40-42
Irreversible(changes) ==
    \E k \in 1 .. Len(changes) :
        \/ Contains(Lower(changes[k].diff), Word_spray)
        \/ Contains(Lower(changes[k].diff), Word_harvest)

\* a client posts a request once the one before it has been answered
Pending == request.route # "none" /\ response.status = 0

PostProposeChange ==
    /\ ~Pending
    /\ \E changes \in ChangeLists, approval \in ApprovalFields :
          request' = [route |-> "propose-change", changes |-> changes,
                      approval |-> approval]
    /\ response' = [status |-> 0]
    /\ UNCHANGED <<processed, video_vars, coordinator_vars, mission_vars>>

\* routes.py lines 37-49
propose_change ==
    /\ Pending
    /\ request.route = "propose-change"
    /\ response' =
          IF Irreversible(request.changes) /\ ~Approval(request.approval)
          THEN [status |-> 403,
                body |-> [detail |-> "Irreversible action requires approval=true"]]
          ELSE [status |-> 200, body |-> [accepted |-> TRUE]]
    /\ UNCHANGED <<request, processed, video_vars, coordinator_vars, mission_vars>>

\* command strings a client sends to the drone agent
Commands ==
    {"manual", "auto", "pause", "resume", "land",
     "explode", "takeoff", "MANUAL", "land ", ""}

\* provider.py lines 16-17: MockDroneProvider.execute
provider_execute(command) ==
    command \in {"manual", "auto", "pause", "resume", "land"}

PostExecute ==
    /\ ~Pending
    /\ \E command \in Commands :
          request' = [route |-> "execute", command |-> command]
    /\ response' = [status |-> 0]
    /\ UNCHANGED <<processed, video_vars, coordinator_vars, mission_vars>>

\* mutant: the provider's verdict is not looked at
execute_AlwaysOk ==
    /\ Pending
    /\ request.route = "execute"
    /\ response' = [status |-> 200, body |-> [status |-> "ok"]]
    /\ UNCHANGED <<request, processed, video_vars, coordinator_vars, mission_vars>>

\* drone_agent/app.py lines 27-35
execute ==
    /\ Pending
    /\ request.route = "execute"
    /\ LET ok == provider_execute(request.command)
       IN  response' =
              IF ~ok
              THEN [status |-> 400, body |-> [detail |-> "Command failed"]]
              ELSE [status |-> 200, body |-> [status |-> "ok"]]
    /\ UNCHANGED <<request, processed, video_vars, coordinator_vars, mission_vars>>

\* most media ids of one suggest request
MaxMedia == 2

MediaIds == {"m1", "m2"}

\* SuggestInput.media_ids: at least one item
MediaIdLists == UNION { [1 .. n -> MediaIds] : n \in 1 .. MaxMedia }

\* the JSON field platforms: left out of the body, or a list
PlatformFields ==
    { [given |-> FALSE] } \cup
    { [given |-> TRUE, value |-> v] :
          v \in { <<>>, <<"youtube">>, <<"tiktok", "instagram">> } }

\* the JSON field max_clips_per_platform: left out of the body, or an integer
MaxClipsFields ==
    { [given |-> FALSE] } \cup { [given |-> TRUE, value |-> v] : v \in {-1, 0, 1} }

\* content_agent/app.py line 85: the default of SuggestInput.platforms
SuggestPlatforms(field) == IF field.given THEN field.value ELSE Platforms

\* content_agent/app.py line 86: the default of max_clips_per_platform
MaxClipsPerPlatform(field) == IF field.given THEN field.value ELSE 3

\* Python's s[:m]
Prefix(s, m) ==
    IF m >= 0 THEN SubSeq(s, 1, Min(m, Len(s)))
    ELSE SubSeq(s, 1, Max(Len(s) + m, 0))

RECURSIVE Concat(_)
Concat(ss) == IF ss = <<>> THEN <<>> ELSE Head(ss) \o Concat(Tail(ss))

\* content_agent/app.py lines 159-169: the mock clip of media id i
MockClip(media_ids, pf, i) ==
    [media_id |-> media_ids[i], start_sec |-> 0, end_sec |-> 15,
     duration |-> 15, file_clip |-> i, platform |-> pf]

\* content_agent/app.py lines 174-182
MockSuggestion(pf) ==
    [platform |-> pf, optimal_posting_time |-> "15:00", content_type |-> "video"]

\* content_agent/app.py lines 150-198: the SuggestOutput of a request
SuggestOutput(media_ids, platforms, max_clips) ==
    LET used == Prefix(media_ids, max_clips)
        clipsOf(pf) == [i \in 1 .. Len(used) |-> MockClip(used, pf, i)]
    IN  [clips |-> Concat([k \in 1 .. Len(platforms) |-> clipsOf(platforms[k])]),
         content_suggestions |->
             [pf \in {platforms[k] : k \in 1 .. Len(platforms)} |->
                 [i \in 1 .. Len(used) |-> MockSuggestion(pf)]],
         processing_stats |->
             [total_media_items |-> Len(media_ids),
              platforms_processed |-> Len(platforms)]]

PostSuggest ==
    /\ ~Pending
    /\ \E media_ids \in MediaIdLists, platforms \in PlatformFields,
          max_clips \in MaxClipsFields :
          request' = [route |-> "suggest", media_ids |-> media_ids,
                      platforms |-> platforms,
                      max_clips_per_platform |-> max_clips]
    /\ response' = [status |-> 0]
    /\ UNCHANGED <<processed, video_vars, coordinator_vars, mission_vars>>

\* content_agent/app.py lines 143-206; a failure of persist_analytics is
\* caught and changes nothing
suggest ==
    /\ Pending
    /\ request.route = "suggest"
    /\ response' =
          [status |-> 200,
           body |-> SuggestOutput(request.media_ids,
                                  SuggestPlatforms(request.platforms),
                                  MaxClipsPerPlatform(request.max_clips_per_platform))]
    /\ UNCHANGED <<request, processed, video_vars, coordinator_vars, mission_vars>>

\* video files on the content agent's disk; the second cannot be processed
ExistingPaths == {"farm.mp4", "broken.mp4"}

\* values of ProcessVideoInput.video_path
VideoPaths == ExistingPaths \cup {"missing.mp4", ""}

\* content_agent/app.py line 222: video_processor.process_video returns the
\* clips of the video (here their number) or raises
ProcessorOutcomes(video_path) ==
    IF video_path = "broken.mp4"
    THEN { [raised |-> TRUE] }
    ELSE { [raised |-> FALSE, clips |-> n] : n \in {0, 3} }

PostProcessVideo ==
    /\ ~Pending
    /\ \E video_path \in VideoPaths :
          request' = [route |-> "process-video", video_path |-> video_path]
    /\ response' = [status |-> 0]
    /\ UNCHANGED <<processed, video_vars, coordinator_vars, mission_vars>>

\* content_agent/app.py lines 208-285: the HTTPException raised at line 219
\* is an Exception, so the except clause at line 277 catches it and the
\* handler returns a ProcessVideoOutput, which FastAPI answers with 200
process_video ==
    /\ Pending
    /\ request.route = "process-video"
    /\ IF request.video_path \notin ExistingPaths
       THEN /\ response' =
                  [status |-> 200,
                   body |-> [success |-> FALSE, clips |-> 0,
                             error |-> "404: Video file not found"]]
            /\ UNCHANGED processed
       ELSE /\ processed' = processed \cup {request.video_path}
            /\ \E outcome \in ProcessorOutcomes(request.video_path) :
                  response' =
                      IF outcome.raised
                      THEN [status |-> 200,
                            body |-> [success |-> FALSE, clips |-> 0,
                                      error |-> "processing failed"]]
                      ELSE [status |-> 200,
                            body |-> [success |-> TRUE, clips |-> outcome.clips]]
    /\ UNCHANGED <<request, video_vars, coordinator_vars, mission_vars>>

InitApi ==
    /\ VideoIdle
    /\ ApiIdle
    /\ CoordinatorIdle
    /\ MissionsIdle

NextApi ==
    \/ PostProposeChange
    \/ propose_change
    \/ PostExecute
    \/ execute
    \/ PostSuggest
    \/ suggest
    \/ PostProcessVideo
    \/ process_video

SpecApi == InitApi /\ [][NextApi]_vars

----------------------------------------------------------------------------
(* Properties of the REST handlers *)

\* the request has been answered
Answered(route) == request.route = route /\ response.status # 0

\* C12: a proposal with a change whose diff names spraying or harvesting, in
\* any letter case, and whose approval is false or left out is answered 403
\* and not accepted; a proposal is answered accepted = true only if it has no
\* such change or its approval is true.
C12_ApprovalForIrreversible ==
    Answered("propose-change") =>
        LET risky == \E k \in 1 .. Len(request.changes) :
                         request.changes[k].diff \in IrreversibleDiffs
            approved == request.approval = "true"
        IN  /\ (risky /\ ~approved) =>
                  /\ response.status = 403
                  /\ "accepted" \notin DOMAIN response.body
            /\ (response.status = 200 /\ response.body.accepted) =>
                  (~risky \/ approved)
            /\ response.status \in {200, 403}

\* a proposal whose second change is "SPRAY" and whose approval is left out
\* has been refused
C12_Witness ==
    /\ Answered("propose-change")
    /\ Len(request.changes) = 2
    /\ request.changes[1].diff = <<"+", "s", "e", "e", "d">>
    /\ request.changes[2].diff = <<"S", "P", "R", "A", "Y">>
    /\ request.approval = "omitted"
    /\ response.status = 403

\* C13: an execute request is answered 200 with status "ok" exactly when its
\* command is one of manual, auto, pause, resume, land; every other command
\* string is answered 400 "Command failed".
C13_ExecuteKnownCommands ==
    Answered("execute") =>
        IF request.command \in {"manual", "auto", "pause", "resume", "land"}
        THEN response.status = 200 /\ response.body = [status |-> "ok"]
        ELSE response.status = 400 /\ response.body = [detail |-> "Command failed"]

\* a command that differs from a known one by its letter case was refused
C13_Witness ==
    /\ Answered("execute")
    /\ request.command = "MANUAL"
    /\ response.status = 400

----------------------------------------------------------------------------
(* The coordinator (farm_ai_crew/coordinator): rows inserted into ai_tasks  *)
(* are delivered to SupabaseIngest's _handler, which starts one handle_task *)
(* coroutine per task.  handle_task[t] is the position of task t's          *)
(* coroutine; the coroutines of different tasks interleave.  A call of the  *)
(* logger writes its row, or raises and writes nothing; dispatching returns *)
(* a result or raises; BackendPublisher.publish never raises.               *)

\* tasks inserted into ai_tasks
MaxTasks == 2

Tasks == 1 .. MaxTasks

InitCoordinator ==
    /\ VideoIdle
    /\ ApiIdle
    /\ MissionsIdle
    /\ handle_task = [t \in Tasks |-> "none"]
    /\ exp_id = [t \in Tasks |-> 0]
    /\ experiments = <<>>
    /\ experiment_logs = <<>>
    /\ published = [t \in Tasks |-> <<>>]

Goto(t, position) == handle_task' = [handle_task EXCEPT ![t] = position]

\* a client inserts the row of task t into ai_tasks
InsertTask(t) ==
    /\ handle_task[t] = "none"
    /\ Goto(t, "inserted")
    /\ UNCHANGED <<exp_id, experiments, experiment_logs, published>>
    /\ UNCHANGED <<video_vars, api_vars, mission_vars>>

\* supabase_ingest.py lines 31-38: the record is made a CoordinatorTask and
\* handle_task is started, or an exception is swallowed and nothing starts
Deliver(t) ==
    /\ handle_task[t] = "inserted"
    /\ \/ Goto(t, "start")
       \/ Goto(t, "dropped")
    /\ UNCHANGED <<exp_id, experiments, experiment_logs, published>>
    /\ UNCHANGED <<video_vars, api_vars, mission_vars>>

\* app.py line 37 and logger.py lines 20-34: outside the try statement
StartExperiment(t) ==
    /\ handle_task[t] = "start"
    /\ \/ /\ experiments' = Append(experiments, [task_id |-> t, status |-> "running"])
          /\ experiment_logs' = Append(experiment_logs, <<>>)
          /\ exp_id' = [exp_id EXCEPT ![t] = Len(experiments) + 1]
          /\ Goto(t, "log_received")
       \/ /\ Goto(t, "crashed_start")
          /\ UNCHANGED <<exp_id, experiments, experiment_logs>>
    /\ UNCHANGED published
    /\ UNCHANGED <<video_vars, api_vars, mission_vars>>

\* logger.py lines 36-47: the row is inserted, or the call raises
LoggerLog(t, message, then, raised) ==
    /\ \/ /\ experiment_logs' =
                 [experiment_logs EXCEPT ![exp_id[t]] = Append(@, message)]
          /\ Goto(t, then)
       \/ /\ Goto(t, raised)
          /\ UNCHANGED experiment_logs
    /\ UNCHANGED <<exp_id, experiments, published>>
    /\ UNCHANGED <<video_vars, api_vars, mission_vars>>

\* logger.py lines 49-57: the row is updated, or the call raises
LoggerFinish(t, status, then, raised) ==
    /\ \/ /\ experiments' = [experiments EXCEPT ![exp_id[t]].status = status]
          /\ Goto(t, then)
       \/ /\ Goto(t, raised)
          /\ UNCHANGED experiments
    /\ UNCHANGED <<exp_id, experiment_logs, published>>
    /\ UNCHANGED <<video_vars, api_vars, mission_vars>>

\* ws_publisher.py lines 15-24: every exception is swallowed
Publish(t, type, then) ==
    /\ published' = [published EXCEPT ![t] = Append(@, type)]
    /\ Goto(t, then)
    /\ UNCHANGED <<exp_id, experiments, experiment_logs>>
    /\ UNCHANGED <<video_vars, api_vars, mission_vars>>

\* app.py line 39
LogReceived(t) ==
    /\ handle_task[t] = "log_received"
    /\ LoggerLog(t, "task_received", "publish_received", "except_log")

\* app.py lines 40-41
PublishReceived(t) ==
    /\ handle_task[t] = "publish_received"
    /\ Publish(t, "task_received", "dispatch")

\* mutant: an exception of the dispatcher leaves handle_task
Dispatch_Uncaught(t) ==
    /\ handle_task[t] = "dispatch"
    /\ \/ Goto(t, "log_completed")
       \/ Goto(t, "crashed_dispatch")
    /\ UNCHANGED <<exp_id, experiments, experiment_logs, published>>
    /\ UNCHANGED <<video_vars, api_vars, mission_vars>>

\* app.py line 43 and dispatcher.py lines 14-41: the crew returns a result
\* or raises
Dispatch(t) ==
    /\ handle_task[t] = "dispatch"
    /\ \/ Goto(t, "log_completed")
       \/ Goto(t, "except_log")
    /\ UNCHANGED <<exp_id, experiments, experiment_logs, published>>
    /\ UNCHANGED <<video_vars, api_vars, mission_vars>>

\* app.py line 44
LogCompleted(t) ==
    /\ handle_task[t] = "log_completed"
    /\ LoggerLog(t, "task_completed", "finish_completed", "except_log")

\* app.py line 45
FinishCompleted(t) ==
    /\ handle_task[t] = "finish_completed"
    /\ LoggerFinish(t, "completed", "publish_completed", "except_log")

\* app.py lines 46-47
PublishCompleted(t) ==
    /\ handle_task[t] = "publish_completed"
    /\ Publish(t, "task_completed", "returned")

\* app.py lines 48-49: the except clause; an exception raised in it leaves
\* handle_task
LogFailed(t) ==
    /\ handle_task[t] = "except_log"
    /\ LoggerLog(t, "task_failed", "except_finish", "crashed_log")

\* app.py line 50
FinishFailed(t) ==
    /\ handle_task[t] = "except_finish"
    /\ LoggerFinish(t, "failed", "except_publish", "crashed_finish")

\* app.py lines 51-52
PublishFailed(t) ==
    /\ handle_task[t] = "except_publish"
    /\ Publish(t, "task_failed", "returned")

\* one step of task t's coroutine
HandleTask(t) ==
    \/ StartExperiment(t)
    \/ LogReceived(t)
    \/ PublishReceived(t)
    \/ Dispatch(t)
    \/ LogCompleted(t)
    \/ FinishCompleted(t)
    \/ PublishCompleted(t)
    \/ LogFailed(t)
    \/ FinishFailed(t)
    \/ PublishFailed(t)

NextCoordinator ==
    \E t \in Tasks :
        \/ InsertTask(t)
        \/ Deliver(t)
        \/ HandleTask(t)

\* the event loop runs every coroutine that can take a step, and a
\* dispatched crew returns or raises
SpecCoordinator ==
    /\ InitCoordinator
    /\ [][NextCoordinator]_vars
    /\ \A t \in Tasks : WF_vars(HandleTask(t))

----------------------------------------------------------------------------
(* Properties of the coordinator *)

\* task t's coroutine is over: it returned, or an exception left it
Ended(t) ==
    handle_task[t] \in {"returned", "crashed_start", "crashed_log", "crashed_finish"}

\* a terminal message is logged for task t's experiment
TerminalLogged(t) ==
    /\ exp_id[t] # 0
    /\ \E k \in 1 .. Len(experiment_logs[exp_id[t]]) :
          experiment_logs[exp_id[t]][k] \in {"task_completed", "task_failed"}

C15_SuggestCaptions ==
    Answered("suggest") =>
        /\ response.status = 200
        /\ "clips" \in DOMAIN response.body
        /\ "captions" \in DOMAIN response.body
        /\ ~request.platforms.given => "youtube" \in DOMAIN response.body.captions

----------------------------------------------------------------------------
(* Properties of the sampling, the grouping and the extraction *)

\* the sample times have just been laid out
SamplesLaidOut == pc = "sampling" /\ sample_i = 0

\* the steps between consecutive sample times are equal
EvenlySpaced(times) ==
    \A j \in 2 .. Len(times) - 1 : times[j + 1] - times[j] = times[j] - times[j - 1]

\* C16 as claimed: for every duration >= 1 s the analysis samples exactly
\* min(30, floor(duration)) timestamps, evenly spaced, the first at 0 and the
\* last at video.duration, also when there is a single sample.
C16_FirstAndLastSample ==
    (SamplesLaidOut /\ duration >= 2) =>
        /\ Len(sample_times) = Min(30, duration \div 2)
        /\ EvenlySpaced(sample_times)
        /\ sample_times[1] = 0
        /\ sample_times[Len(sample_times)] = duration * tden

\* C16 as the code has it: for every duration >= 1 s the analysis samples
\* exactly min(30, floor(duration)) timestamps, evenly spaced, the first at
\* 0; the last is at video.duration when there are at least 2 samples, and
\* for a duration in [1, 2) the single sample is at 0.
C16_SamplesOfLinspace ==
    (SamplesLaidOut /\ duration >= 2) =>
        /\ Len(sample_times) = Min(30, duration \div 2)
        /\ EvenlySpaced(sample_times)
        /\ sample_times[1] = 0
        /\ Len(sample_times) >= 2 =>
               sample_times[Len(sample_times)] = duration * tden
        /\ duration < 4 => sample_times = <<0>>

\* a video of 1.5 s has its single sample at 0
C16_Witness ==
    /\ SamplesLaidOut
    /\ duration = 3
    /\ sample_times = <<0>>

\* the peaks from a to b follow each other at most 3 indices apart
ChainOfPeaks(a, b, ps) ==
    /\ a \in ps /\ b \in ps /\ a <= b
    /\ \A p \in ps : (a <= p /\ p < b) => \E q \in ps : p < q /\ q - p <= 3

\* a group: a chain that no peak within 3 indices precedes or follows
GroupOfPeaks(a, b, ps) ==
    /\ ChainOfPeaks(a, b, ps)
    /\ ~\E p \in ps : p < a /\ a - p <= 3
    /\ ~\E q \in ps : q > b /\ q - b <= 3

\* C17: consecutive peaks are in one group exactly when their indices differ
\* by at most 3; each group of at least 2 peaks yields one segment, from the
\* time of its first peak to the time of its last, whose duration is
\* end_time - start_time and whose score is the mean combined score of the
\* group's peaks alone; nothing else yields a segment.
C17_GroupsBecomeSegments ==
    JustAnalysed =>
        \E rounded_down \in BOOLEAN :
        LET ps == PeakSet(rounded_down)
            combined == CombinedScores(motion_scores, brightness_scores,
                                       composition_scores)
            groups == {g \in ps \X ps : g[1] < g[2] /\ GroupOfPeaks(g[1], g[2], ps)}
        IN  /\ Len(segments) = Cardinality(groups)
            /\ \A g \in groups :
                  \E k \in 1 .. Len(segments) :
                      LET members == {p \in ps : g[1] <= p /\ p <= g[2]}
                          total == SeqSum([j \in 1 .. Len(combined) |->
                                              IF j \in members THEN combined[j] ELSE 0])
                      IN  /\ segments[k].start_time = sample_times[g[1]]
                          /\ segments[k].end_time = sample_times[g[2]]
                          /\ segments[k].duration =
                                 segments[k].end_time - segments[k].start_time
                          /\ segments[k].score.num * Cardinality(members) =
                                 segments[k].score.den * total
                          /\ segments[k].score.scale = ScoreScale(motion_scores)

\* two segments were returned, one of them with a sample that is not a peak
\* between its first and its last peak
C17_Witness ==
    /\ JustAnalysed
    /\ Len(segments) = 2
    /\ \E k \in 1 .. 2 :
          \E j \in 1 .. Len(sample_times) :
              /\ j \notin PeakSet(TRUE)
              /\ segments[k].start_time < sample_times[j]
              /\ sample_times[j] < segments[k].end_time

\* C18: the clips _extract_platform_clips returns for a platform correspond
\* one-to-one, in order, to the first 5 segments of the analysis, which is
\* not capped before: clip i has the quality_score of segment i.
C18_ClipsMatchPrefix ==
    pc = "returned" =>
        /\ Len(result) = Min(5, Len(segments))
        /\ \A i \in 1 .. Len(result) :
              result[i].quality_score = segments[i].score

\* the clips of the result made for platform pf, in order
ClipsFor(pf) == SelectSeq(result, LAMBDA c : c.platform = pf)

\* C19: for one analysis result the clips extracted for youtube, instagram
\* and tiktok have the same count and, index by index, the same start_time,
\* end_time, duration and quality_score.
C19_PlatformPassthrough ==
    pc = "done" =>
        \A p, q \in {"youtube", "instagram", "tiktok"} :
            /\ Len(ClipsFor(p)) = Len(ClipsFor(q))
            /\ \A i \in 1 .. Len(ClipsFor(p)) :
                  /\ ClipsFor(p)[i].start_time = ClipsFor(q)[i].start_time
                  /\ ClipsFor(p)[i].end_time = ClipsFor(q)[i].end_time
                  /\ ClipsFor(p)[i].duration = ClipsFor(q)[i].duration
                  /\ ClipsFor(p)[i].quality_score = ClipsFor(q)[i].quality_score

\* C20: every error raised while analysing a video or extracting its clips
\* surfaces to the caller: when producing a clip has failed, process_video
\* does not return the remaining clips as if nothing had happened.
C20_ErrorsSurface ==
    /\ pc = "done" => sink_failures = 0
    /\ pc = "failed" => error # "none" /\ result = <<>>

----------------------------------------------------------------------------
(* The analysis of a synthetic video of 10 s: flat, equal frames with a    *)
(* burst of sharper frames from 4 s to 6 s.  The same code runs            *)
(* (_analyze_video, lines 119-158); only the frame source differs.         *)

\* the synthetic video lasts 10 s
SyntheticDuration == 20

\* Laplacian variances (in 1e-6) a synthetic frame may have
MaxSyntheticMotion == 9

SyntheticMotions == {0, 1, 2, 3, 4, MaxSyntheticMotion}

\* sample j (1-based) is taken between 4 s and 6 s
InBurst(j) ==
    /\ 4 * UnitsPerSecond(tden) <= sample_times[j]
    /\ sample_times[j] <= 6 * UnitsPerSecond(tden)

\* the frames the synthetic video may hold at sample j: the first frame is
\* any flat frame, the frames outside the burst equal it, and a frame of the
\* burst is at least as sharp (equal when the burst is removed)
SyntheticFramesAt(j) ==
    IF j = 1
    THEN { [motion |-> m, brightness |-> 255] : m \in SyntheticMotions }
    ELSE IF InBurst(j)
         THEN { [motion |-> m, brightness |-> 255] :
                    m \in {x \in SyntheticMotions : x >= motion_scores[1]} }
         ELSE { [motion |-> motion_scores[1], brightness |-> 255] }

InitSynthetic ==
    /\ pc = "load"
    /\ duration = SyntheticDuration
    /\ sample_times = <<>>
    /\ sample_i = 0
    /\ motion_scores = <<>>
    /\ brightness_scores = <<>>
    /\ composition_scores = <<>>
    /\ tden = 1
    /\ segments = <<>>
    /\ platform = 1
    /\ seg_i = 1
    /\ platform_clips = <<>>
    /\ clips = <<>>
    /\ sink_failures = 0
    /\ error = "none"
    /\ result = <<>>
    /\ ApiIdle
    /\ CoordinatorIdle
    /\ MissionsIdle

\* lines 131-145: one turn of the sampling loop on the synthetic video, whose
\* frames all decode
SampleSyntheticFrame ==
    /\ pc = "sampling"
    /\ sample_i < Len(sample_times)
    /\ \E frame \in SyntheticFramesAt(sample_i + 1) :
          /\ motion_scores' = Append(motion_scores, frame.motion)
          /\ brightness_scores' = Append(brightness_scores, frame.brightness)
          /\ composition_scores' =
                 Append(composition_scores, CalculateCompositionScore(frame))
    /\ sample_i' = sample_i + 1
    /\ UNCHANGED <<pc, error, duration, sample_times, tden, segments, platform,
                   seg_i, platform_clips, clips, sink_failures, result>>
    /\ UNCHANGED <<api_vars, coordinator_vars, mission_vars>>

NextSynthetic ==
    \/ StartAnalysis
    \/ SampleSyntheticFrame
    \/ FindSegments

SpecSynthetic == InitSynthetic /\ [][NextSynthetic]_vars

\* the samples taken between 4 s and 6 s
BurstSamples == {j \in 1 .. Len(sample_times) : InBurst(j)}

\* every sample of the burst is sharper than the flat frames
BurstIsHigh == \A j \in BurstSamples : motion_scores[j] > motion_scores[1]

\* C21 as claimed: the 10 s video is sampled 10 times; when exactly the
\* samples between 4 s and 6 s have a high motion score and all the others
\* are flat and equal, the analysis returns exactly one segment, from the
\* first to the last sample between 4 s and 6 s; when all samples are equal
\* it returns no segment.
C21_BurstIsOneSegment ==
    JustAnalysed =>
        /\ Len(sample_times) = 10
        /\ BurstIsHigh =>
              /\ Len(segments) = 1
              /\ \A j \in BurstSamples :
                    /\ segments[1].start_time <= sample_times[j]
                    /\ sample_times[j] <= segments[1].end_time
              /\ \E j \in BurstSamples : segments[1].start_time = sample_times[j]
              /\ \E j \in BurstSamples : segments[1].end_time = sample_times[j]
        /\ UniformFrames => segments = <<>>

\* C21 as the code has it: the same, for a burst whose samples all have the
\* same high motion score.
C21_EqualBurstIsOneSegment ==
    JustAnalysed =>
        /\ Len(sample_times) = 10
        /\ (BurstIsHigh /\ \A j, k \in BurstSamples : motion_scores[j] = motion_scores[k]) =>
              /\ Len(segments) = 1
              /\ \A j \in BurstSamples :
                    /\ segments[1].start_time <= sample_times[j]
                    /\ sample_times[j] <= segments[1].end_time
              /\ \E j \in BurstSamples : segments[1].start_time = sample_times[j]
              /\ \E j \in BurstSamples : segments[1].end_time = sample_times[j]
        /\ UniformFrames => segments = <<>>

\* flat frames of variance 1 with a burst of variance 4 at samples 5 and 6
\* gave the segment from 40/9 s to 50/9 s
C21_Witness ==
    /\ JustAnalysed
    /\ duration = 20
    /\ motion_scores = <<1, 1, 1, 1, 4, 4, 1, 1, 1, 1>>
    /\ Len(segments) = 1
    /\ segments[1].start_time = 80
    /\ segments[1].end_time = 100

----------------------------------------------------------------------------
(* Properties of the process-video handler *)

\* C22: a process-video request whose video_path does not exist is answered
\* with HTTP 404 "Video file not found", and the video processor is never
\* invoked for such a path.
C22_MissingVideoIs404 ==
    /\ (Answered("process-video") /\ request.video_path \notin {"farm.mp4", "broken.mp4"}) =>
          response.status = 404
    /\ \A video_path \in processed : video_path \in {"farm.mp4", "broken.mp4"}

(***************************************************************************)
(* The drone content integration service                                   *)
(* (drone-content-integration/drone_content_integration.py).  A Mission    *)
(* is an object; self.missions maps a mission id to one.  execute_mission  *)
(* and cancel_mission are coroutines: between two awaits a coroutine runs  *)
(* alone, at an await any other coroutine may run.  A Mission object is    *)
(* named here by its position in mission_objects.                          *)
(***************************************************************************)

\* Mission objects the model follows while they are executed
MaxMissions == 1

\* create_mission calls the model follows on their own
MaxCreated == 3

\* clock seconds the model follows
MaxClock == 3

\* mission ids: "mission_<second>"; no mission has the id of a second
\* that is still to come
MissionIds == 1 .. clock + 1

\* movements of a flight plan
FlightPlans == {0, 1}

\* the results of a request: it succeeded or it did not
Outcomes == {"ok", "failed"}

\* time.time() moves on
Tick ==
    /\ clock < MaxClock
    /\ clock' = clock + 1
    /\ UNCHANGED <<mission_objects, missions, active_mission, posted,
                   execute_mission, cancel_mission, returned>>
    /\ UNCHANGED <<video_vars, api_vars, coordinator_vars>>

\* Mission(...) as create_mission builds it (lines 145-154)
Mission(id, movements) ==
    [ id |-> id, movements |-> movements, status |-> "PLANNED",
      started_at |-> FALSE, completed_at |-> FALSE,
      content_results |-> FALSE, error_message |-> "None" ]

\* create_mission (lines 136-159): the id is the clock second
CreateMission(movements) ==
    /\ mission_objects' = Append(mission_objects, Mission(clock, movements))
    /\ missions' = [ id \in DOMAIN missions \cup {clock} |->
                       IF id = clock THEN Len(mission_objects) + 1
                       ELSE missions[id] ]
    /\ posted' = Append(posted, <<>>)
    /\ execute_mission' = Append(execute_mission, "none")
    /\ cancel_mission' = Append(cancel_mission, "none")
    /\ UNCHANGED <<clock, active_mission, returned>>
    /\ UNCHANGED <<video_vars, api_vars, coordinator_vars>>

\* a call returns
Return(call, id, m, value) ==
    returned' = [call |-> call, id |-> id, mission |-> m, result |-> value]

\* the request a coroutine posts on behalf of a Mission object, and what
\* the coroutine makes of the response
Post(m, endpoint, by, outcome) ==
    posted' = [posted EXCEPT ![m] =
        Append(@, [endpoint |-> endpoint, by |-> by, outcome |-> outcome])]

\* execute_mission with an id that is not in self.missions (lines 163-165)
ExecuteUnknown(id) ==
    /\ id \notin DOMAIN missions
    /\ Return("execute_mission", id, 0, FALSE)
    /\ UNCHANGED <<clock, mission_objects, missions, active_mission, posted,
                   execute_mission, cancel_mission>>
    /\ UNCHANGED <<video_vars, api_vars, coordinator_vars>>

\* execute_mission up to its first await (lines 167-176)
ExecuteStart(id) ==
    /\ id \in DOMAIN missions
    /\ execute_mission[missions[id]] = "none"
    /\ LET m == missions[id] IN
        /\ mission_objects' = [mission_objects EXCEPT
               ![m].status = "IN_PROGRESS", ![m].started_at = TRUE]
        /\ active_mission' = m
        /\ execute_mission' = [execute_mission EXCEPT ![m] = "connect"]
    /\ UNCHANGED <<clock, missions, posted, cancel_mission, returned>>
    /\ UNCHANGED <<video_vars, api_vars, coordinator_vars>>

\* the except clause of execute_mission (lines 201-205)
Fail(m, message) ==
    /\ mission_objects' = [mission_objects EXCEPT
           ![m].status = "FAILED", ![m].error_message = message]
    /\ execute_mission' = [execute_mission EXCEPT ![m] = "finally_False"]

\* a request of execute_mission whose failure is not looked at
Step_GoesOn(m, at, endpoint, next, message) ==
    /\ execute_mission[m] = at
    /\ \E outcome \in Outcomes : Post(m, endpoint, "execute_mission", outcome)
    /\ execute_mission' = [execute_mission EXCEPT ![m] = next]
    /\ UNCHANGED <<clock, mission_objects, missions, active_mission,
                   cancel_mission, returned>>
    /\ UNCHANGED <<video_vars, api_vars, coordinator_vars>>

\* one request of execute_mission: posted, awaited, and the next position
\* on success or the except clause on failure
Step(m, at, endpoint, next, message) ==
    /\ execute_mission[m] = at
    /\ \E outcome \in Outcomes :
        /\ Post(m, endpoint, "execute_mission", outcome)
        /\ IF outcome = "ok"
           THEN /\ execute_mission' = [execute_mission EXCEPT ![m] = next]
                /\ UNCHANGED mission_objects
           ELSE Fail(m, message)
    /\ UNCHANGED <<clock, missions, active_mission, cancel_mission, returned>>
    /\ UNCHANGED <<video_vars, api_vars, coordinator_vars>>

\* _connect_drone (lines 212-225) and its test at lines 177-178
ConnectDrone(m) ==
    Step(m, "connect", "connect", "takeoff", "Failed to connect to drone")

\* _execute_flight_plan (lines 227-259): takeoff, then the movements
Takeoff(m) ==
    Step(m, "takeoff", "takeoff",
         IF mission_objects[m].movements > 0 THEN "move" ELSE "record",
         "Flight plan execution failed")

\* a movement of the flight plan (lines 241-253)
Move(m) ==
    Step(m, "move", "move", "record", "Flight plan execution failed")

\* _capture_content (lines 261-289): start the recording
StartRecording(m) ==
    Step(m, "record", "record", "stop_record", "Content capture failed")

\* _capture_content: stop the recording, the video path is returned
StopRecording(m) ==
    Step(m, "stop_record", "stop_record", "process", "Content capture failed")

\* _process_content (lines 291-326) and the completion (lines 189-199)
ProcessContent(m) ==
    /\ execute_mission[m] = "process"
    /\ \E outcome \in Outcomes :
        /\ Post(m, "process", "execute_mission", outcome)
        /\ IF outcome = "ok"
           THEN /\ mission_objects' = [mission_objects EXCEPT
                       ![m].status = "COMPLETED", ![m].completed_at = TRUE,
                       ![m].content_results = TRUE]
                /\ execute_mission' = [execute_mission EXCEPT ![m] = "finally_True"]
           ELSE Fail(m, "Content processing failed")
    /\ UNCHANGED <<clock, missions, active_mission, cancel_mission, returned>>
    /\ UNCHANGED <<video_vars, api_vars, coordinator_vars>>

\* _safe_landing (lines 328-338): the land command is posted, whatever
\* becomes of it
SafeLanding(m, by) ==
    Post(m, "land", by, "ignored")

\* a finally clause that leaves the drone in the air
ExecuteFinally_NoLanding(m) ==
    /\ execute_mission[m] \in {"finally_True", "finally_False"}
    /\ execute_mission' = [execute_mission EXCEPT ![m] =
           IF @ = "finally_True" THEN "landed_True" ELSE "landed_False"]
    /\ UNCHANGED <<clock, mission_objects, missions, active_mission, posted,
                   cancel_mission, returned>>
    /\ UNCHANGED <<video_vars, api_vars, coordinator_vars>>

\* the finally clause of execute_mission (lines 207-209): the drone is told
\* to land, with the return value of the try statement pending
ExecuteFinally(m) ==
    /\ execute_mission[m] \in {"finally_True", "finally_False"}
    /\ SafeLanding(m, "execute_mission")
    /\ execute_mission' = [execute_mission EXCEPT ![m] =
           IF @ = "finally_True" THEN "landed_True" ELSE "landed_False"]
    /\ UNCHANGED <<clock, mission_objects, missions, active_mission,
                   cancel_mission, returned>>
    /\ UNCHANGED <<video_vars, api_vars, coordinator_vars>>

\* the end of the finally clause (line 210) and the return
ExecuteReturn(m) ==
    /\ execute_mission[m] \in {"landed_True", "landed_False"}
    /\ active_mission' = 0
    /\ execute_mission' = [execute_mission EXCEPT ![m] = "returned"]
    /\ Return("execute_mission", mission_objects[m].id, m,
              execute_mission[m] = "landed_True")
    /\ UNCHANGED <<clock, mission_objects, missions, posted, cancel_mission>>
    /\ UNCHANGED <<video_vars, api_vars, coordinator_vars>>

\* cancel_mission that cancels whatever the status of the mission is
CancelMission_AnyStatus(id) ==
    /\ id \in DOMAIN missions
    /\ LET m == missions[id] IN
        /\ cancel_mission[m] = "none"
        /\ mission_objects' = [mission_objects EXCEPT ![m].status = "CANCELLED"]
        /\ cancel_mission' = [cancel_mission EXCEPT ![m] = "landing"]
    /\ UNCHANGED <<clock, missions, active_mission, posted, execute_mission, returned>>
    /\ UNCHANGED <<video_vars, api_vars, coordinator_vars>>

\* cancel_mission up to its await (lines 362-374): the refusals return at
\* once, the acceptance sets CANCELLED and goes on to land
CancelMission(id) ==
    /\ IF id \in DOMAIN missions
          /\ mission_objects[missions[id]].status = "IN_PROGRESS"
       THEN LET m == missions[id] IN
            /\ cancel_mission[m] = "none"
            /\ mission_objects' = [mission_objects EXCEPT ![m].status = "CANCELLED"]
            /\ cancel_mission' = [cancel_mission EXCEPT ![m] = "landing"]
            /\ UNCHANGED returned
       ELSE /\ Return("cancel_mission", id,
                      IF id \in DOMAIN missions THEN missions[id] ELSE 0, FALSE)
            /\ UNCHANGED <<mission_objects, cancel_mission>>
    /\ UNCHANGED <<clock, missions, active_mission, posted, execute_mission>>
    /\ UNCHANGED <<video_vars, api_vars, coordinator_vars>>

\* cancel_mission after its await: the drone was told to land (lines 370-372)
CancelLanded(m) ==
    /\ cancel_mission[m] = "landing"
    /\ SafeLanding(m, "cancel_mission")
    /\ cancel_mission' = [cancel_mission EXCEPT ![m] = "none"]
    /\ Return("cancel_mission", mission_objects[m].id, m, TRUE)
    /\ UNCHANGED <<clock, mission_objects, missions, active_mission, execute_mission>>
    /\ UNCHANGED <<video_vars, api_vars, coordinator_vars>>

\* the service after __init__ (lines 74-76)
InitMissions ==
    /\ VideoIdle
    /\ ApiIdle
    /\ CoordinatorIdle
    /\ MissionsIdle

NextMissions ==
    \/ \E movements \in FlightPlans :
          Len(mission_objects) < MaxMissions /\ CreateMission(movements)
    \/ \E id \in MissionIds : ExecuteUnknown(id)
    \/ \E id \in MissionIds : ExecuteStart(id)
    \/ \E m \in DOMAIN mission_objects : ConnectDrone(m)
    \/ \E m \in DOMAIN mission_objects : Takeoff(m)
    \/ \E m \in DOMAIN mission_objects : Move(m)
    \/ \E m \in DOMAIN mission_objects : StartRecording(m)
    \/ \E m \in DOMAIN mission_objects : StopRecording(m)
    \/ \E m \in DOMAIN mission_objects : ProcessContent(m)
    \/ \E m \in DOMAIN mission_objects : ExecuteFinally(m)
    \/ \E m \in DOMAIN mission_objects : ExecuteReturn(m)
    \/ \E id \in MissionIds : CancelMission(id)
    \/ \E m \in DOMAIN mission_objects : CancelLanded(m)

SpecMissions == InitMissions /\ [][NextMissions]_vars

\* create_mission on its own, while the clock moves on
NextCreate ==
    \/ Tick
    \/ \E movements \in FlightPlans :
          Len(mission_objects) < MaxCreated /\ CreateMission(movements)

SpecCreate == InitMissions /\ [][NextCreate]_vars

(***************************************************************************)
(* Properties of the missions.                                             *)
(***************************************************************************)

\* the statuses in which a mission is not being executed
NotInProgress == {"PLANNED", "COMPLETED", "FAILED", "CANCELLED"}

\* a call of the given name returns in this step
Returns(call) ==
    returned' # returned /\ returned'.call = call

\* cancel_mission takes the mission object m in this step
Cancels(m) ==
    cancel_mission[m] = "none" /\ cancel_mission'[m] = "landing"

\* C23: cancel_mission sets CANCELLED and goes on to return True only for a
\* mission that exists and is IN_PROGRESS, and no step sets CANCELLED
\* otherwise; a cancel_mission that returns False found no mission under
\* the id or one that is PLANNED, COMPLETED, FAILED or CANCELLED, posts no
\* land command and leaves every Mission object as it was.
C23_CancelOnlyInProgress ==
    [][ /\ \A m \in DOMAIN mission_objects :
            /\ Cancels(m) =>
                /\ \E id \in DOMAIN missions : missions[id] = m
                /\ mission_objects[m].status = "IN_PROGRESS"
                /\ mission_objects'[m].status = "CANCELLED"
            /\ ( /\ mission_objects'[m].status = "CANCELLED"
                 /\ mission_objects[m].status # "CANCELLED" ) => Cancels(m)
        /\ (Returns("cancel_mission") /\ returned'.result) =>
            /\ returned'.mission \in DOMAIN mission_objects
            /\ cancel_mission[returned'.mission] = "landing"
        /\ (Returns("cancel_mission") /\ ~returned'.result) =>
            /\ \/ returned'.id \notin DOMAIN missions
               \/ mission_objects[missions[returned'.id]].status \in NotInProgress
            /\ mission_objects' = mission_objects
            /\ posted' = posted
            /\ cancel_mission' = cancel_mission
      ]_vars

\* cancel_mission has refused a mission that it had cancelled before
C23_Witness ==
    /\ returned.call = "cancel_mission"
    /\ ~returned.result
    /\ returned.mission # 0
    /\ mission_objects[returned.mission].status = "CANCELLED"
    /\ \E i \in DOMAIN posted[returned.mission] :
          posted[returned.mission][i] =
              [endpoint |-> "land", by |-> "cancel_mission", outcome |-> "ignored"]

\* the land command execute_mission posts
LandByExecute ==
    [endpoint |-> "land", by |-> "execute_mission", outcome |-> "ignored"]

\* the requests posted on behalf of m, as a set
PostedFor(m) == { posted[m][i] : i \in DOMAIN posted[m] }

\* C24: when an execute_mission that set its mission IN_PROGRESS returns,
\* on whatever path, it has posted a land command and active_mission is
\* None; an execute_mission for an id that is not in self.missions returns
\* False and leaves the missions, the active mission and the drone alone.
C24_LandsBeforeReturning ==
    [][ /\ \A m \in DOMAIN mission_objects :
            (execute_mission[m] # "returned" /\ execute_mission'[m] = "returned") =>
                /\ mission_objects[m].started_at
                /\ \E i \in DOMAIN posted'[m] : posted'[m][i] = LandByExecute
                /\ active_mission' = 0
        /\ (Returns("execute_mission") /\ returned'.mission = 0) =>
            /\ returned'.id \notin DOMAIN missions
            /\ ~returned'.result
            /\ UNCHANGED <<clock, mission_objects, missions, active_mission,
                           posted, execute_mission, cancel_mission>>
      ]_vars

\* execute_mission has returned False after the connection failed, and the
\* drone was told to land
C24_Witness ==
    \E m \in DOMAIN mission_objects :
        /\ execute_mission[m] = "returned"
        /\ mission_objects[m].error_message = "Failed to connect to drone"
        /\ posted[m] = << [endpoint |-> "connect", by |-> "execute_mission",
                            outcome |-> "failed"],
                          LandByExecute >>
        /\ active_mission = 0
        /\ returned = [call |-> "execute_mission", id |-> mission_objects[m].id,
                       mission |-> m, result |-> FALSE]

\* the requests of the four steps of a mission, in the order of the code
Plan(m) ==
    <<"connect", "takeoff">>
    \o (IF mission_objects[m].movements > 0 THEN <<"move">> ELSE <<>>)
    \o <<"record", "stop_record", "process">>

\* is the request one of the four steps of execute_mission
OfTheSteps(p) == p.by = "execute_mission" /\ p.endpoint # "land"

\* the requests execute_mission has posted for its four steps
StepsOf(m) == SelectSeq(posted[m], OfTheSteps)

\* the error message of the step a request belongs to
MessageOf(endpoint) ==
    CASE endpoint = "connect" -> "Failed to connect to drone"
      [] endpoint \in {"takeoff", "move"} -> "Flight plan execution failed"
      [] endpoint \in {"record", "stop_record"} -> "Content capture failed"
      [] OTHER -> "Content processing failed"

\* the requests of execute_mission follow the plan, none follows a failed
\* one, and a failed one has made the mission FAILED with its message
InOrder(m) ==
    LET steps == StepsOf(m) IN
    /\ Len(steps) <= Len(Plan(m))
    /\ \A i \in DOMAIN steps :
        /\ steps[i].endpoint = Plan(m)[i]
        /\ i < Len(steps) => steps[i].outcome = "ok"
    /\ (steps # <<>> /\ steps[Len(steps)].outcome = "failed") =>
        /\ mission_objects[m].status = "FAILED"
        /\ mission_objects[m].error_message = MessageOf(steps[Len(steps)].endpoint)
        /\ ~mission_objects[m].completed_at
        /\ ~mission_objects[m].content_results
        /\ execute_mission[m] \in {"finally_False", "landed_False", "returned"}

\* the step changes something of the Mission object m or of its coroutines
Touched(m) ==
    \/ mission_objects'[m] # mission_objects[m]
    \/ posted'[m] # posted[m]
    \/ execute_mission'[m] # execute_mission[m]

\* C25: execute_mission posts the requests of connect, flight plan, capture
\* and processing in that order and none after a failed one; it returns
\* True, with the mission COMPLETED and completed_at and content_results
\* set, only after every request of the plan succeeded; a failed request
\* makes the mission FAILED with an error message and the return value
\* False.
C25_StepsInOrder ==
    [][ \A m \in DOMAIN mission_objects :
          /\ Touched(m) => InOrder(m)'
          /\ (Returns("execute_mission") /\ returned'.mission = m) =>
              LET steps == StepsOf(m)' IN
              IF returned'.result
              THEN /\ Len(steps) = Len(Plan(m))
                   /\ \A i \in DOMAIN steps : steps[i].outcome = "ok"
                   /\ mission_objects'[m].status = "COMPLETED"
                   /\ mission_objects'[m].completed_at
                   /\ mission_objects'[m].content_results
                   /\ mission_objects'[m].error_message = "None"
              ELSE /\ steps # <<>>
                   /\ steps[Len(steps)].outcome = "failed"
      ]_vars

\* execute_mission has returned False after the capture failed: the drone
\* was connected and flown, and the processing was never asked for
C25_Witness ==
    \E m \in DOMAIN mission_objects :
        /\ returned = [call |-> "execute_mission", id |-> mission_objects[m].id,
                       mission |-> m, result |-> FALSE]
        /\ mission_objects[m].error_message = "Content capture failed"
        /\ Len(StepsOf(m)) = 4
        /\ StepsOf(m)[4].endpoint = "record"

\* the land command cancel_mission posts before it returns True
LandByCancel ==
    [endpoint |-> "land", by |-> "cancel_mission", outcome |-> "ignored"]

\* C28: once cancel_mission has returned True for a mission, the mission
\* stays CANCELLED and its execute_mission posts no further request of
\* the flight, the recording or the processing.
C28_CancellationIsFinal ==
    \A m \in DOMAIN mission_objects :
        \A i \in DOMAIN posted[m] :
            posted[m][i] = LandByCancel =>
                /\ mission_objects[m].status = "CANCELLED"
                /\ \A j \in DOMAIN posted[m] : j > i => ~OfTheSteps(posted[m][j])

\* C29: every create_mission call adds a mission: self.missions holds as
\* many missions as were created, each of them under an id of its own.
C29_CreateAddsOne ==
    /\ Cardinality(DOMAIN missions) = Len(mission_objects)
    /\ \A m \in DOMAIN mission_objects :
          \E id \in DOMAIN missions : missions[id] = m

----------------------------------------------------------------------------
(* Properties of the analysis of short videos *)

\* a video of 1 s to under 5 s (1 to 4 samples) whose frames can be decoded
\* is analysed without error, and it yields no segment and no clip
FewSamplesNoSegment ==
    (duration >= 2 /\ duration < 10 /\ pc \notin {"load", "sampling"}) =>
        /\ error \in {"none", "DecodeError"}
        /\ segments = <<>>
        /\ platform_clips = <<>>
        /\ clips = <<>>

\* C26: every video with floor(duration) <= 4 (at most 4 samples) is
\* analysed to the empty list of segments, whatever its frames contain, and
\* yields no clip on any platform.
C26_ShortVideoNoClip ==
    /\ FewSamplesNoSegment
    /\ (duration > 0 /\ duration < 2 /\ pc \notin {"load", "sampling"}) =>
          /\ error = "none"
          /\ segments = <<>>
          /\ clips = <<>>

\* the time between two samples, in the units of sample_times
SampleStep == sample_times[2] - sample_times[1]

\* segment a ends more than PeakGap sample steps before segment b starts
WellBefore(a, b) == a.end_time + PeakGap * SampleStep < b.start_time

\* C27: any two segments of one analysis are apart in time, one ending more
\* than 3 sample steps before the other starts, and no peak sample lies in
\* two segments.
C27_SegmentsApart ==
    (JustAnalysed /\ Len(segments) >= 2) =>
        /\ \A k, l \in 1 .. Len(segments) :
              k # l => \/ WellBefore(segments[k], segments[l])
                       \/ WellBefore(segments[l], segments[k])
        /\ \A j \in 1 .. Len(sample_times) :
              Cardinality({k \in 1 .. Len(segments) :
                              /\ segments[k].start_time <= sample_times[j]
                              /\ sample_times[j] <= segments[k].end_time}) <= 1

\* two segments were returned with 4 sample steps from the end of the one to
\* the start of the other
C27_Witness ==
    /\ JustAnalysed
    /\ Len(segments) >= 2
    /\ \E k, l \in 1 .. Len(segments) :
          segments[k].end_time + (PeakGap + 1) * SampleStep = segments[l].start_time

----------------------------------------------------------------------------
(* Properties of the experiment log of a task *)

\* the messages logged for experiment e, as a set
Logged(e) == { experiment_logs[e][i] : i \in DOMAIN experiment_logs[e] }

\* C30: in the log of every experiment 'task_received' precedes a terminal
\* message, 'task_completed' and 'task_failed' are not both logged, and a
\* status 'completed' or 'failed' of the experiment is the terminal message
\* that was logged.
C30_OneTerminalOutcome ==
    \A e \in DOMAIN experiment_logs :
        /\ ({"task_completed", "task_failed"} \cap Logged(e) # {}) =>
              experiment_logs[e][1] = "task_received"
        /\ ~({"task_completed", "task_failed"} \subseteq Logged(e))
        /\ experiments[e].status = "completed" => "task_completed" \in Logged(e)
        /\ experiments[e].status = "failed" => "task_failed" \in Logged(e)

====
